---- MODULE Spec2Model ----
(***************************************************************************)
(* Runtime support library of the While language compiler (runtime.c):     *)
(* flat arrays and tagged objects laid out as count-prefixed word blocks,  *)
(* with compare / clone / fill over each layout.                           *)
(*                                                                         *)
(* A block is a sequence of words w; the C expression obj[j] is w[j+1].    *)
(* The heap maps every address to the block stored there (or to Free).     *)
(***************************************************************************)
EXTENDS Integers, Sequences, FiniteSets, TLC

\* ------------------------------------------------------------------ bounds
MaxObjs == 3       \* blocks of the heap of Spec (two inputs and one clone)
MaxLen == 2        \* largest count word of an input object of Spec
MaxVal == 1        \* scalars are 0..MaxVal (1 is also an address)
MaxTag == 2        \* tags are 0..MaxTag
CmpObjs == 5       \* blocks of the heap of SpecCmp
CmpLen == 1        \* largest count word of a tagged object of SpecCmp
RunObjs == 3       \* blocks of the heap of SpecRun
RunLen == 1        \* largest count word of a tagged object of SpecRun

Addrs == 1..MaxObjs
Scalars == 0..MaxVal
Tags == 0..MaxTag
PtrTags == 1..MaxTag

\* heap:  the block at every address
\* last:  the latest call that ended: its arguments and its result
\* stack: the activation records of a running objcmp, the innermost last
\* ret:   <<r>> while a nested objcmp has returned r and its caller has not
\*        looked at it yet, <<>> otherwise
\* calls: the activations the running (or latest) objcmp has made so far
VARIABLES heap, last, stack, ret, calls

vars == <<heap, last, stack, ret, calls>>

\* ------------------------------------------------------------- the heap
Free == [kind |-> "free", w |-> <<>>]
Garbage == -1      \* a word malloc returned and nobody wrote yet

Allocated(h) == {a \in DOMAIN h : h[a].kind # "free"}
IntObjs(h) == {a \in DOMAIN h : h[a].kind = "int"}
TagObjs(h) == {a \in DOMAIN h : h[a].kind = "obj"}

\* obj[j]
Rd(h, obj, j) == h[obj].w[j + 1]

\* obj[j] = v
Wr(h, obj, j, v) == [h EXCEPT ![obj].w[j + 1] = v]

\* malloc(sizeof(int64_t) * n) returning the block at address cpy
Malloc(h, cpy, kind, n) ==
  [h EXCEPT ![cpy] = [kind |-> kind, w |-> [i \in 1..n |-> Garbage]]]

\* ------------------------------------------------------------- intcmp
RECURSIVE intcmpLoop(_, _, _, _, _)
intcmpLoopSkipsLast(h, obj1, obj2, i, j) ==
  IF i + 1 < Rd(h, obj1, 0)
    THEN IF Rd(h, obj1, j) # Rd(h, obj2, j)
           THEN 0
           ELSE intcmpLoop(h, obj1, obj2, i + 1, j + 1)
    ELSE 1

intcmpLoop(h, obj1, obj2, i, j) ==
  IF i < Rd(h, obj1, 0)
    THEN IF Rd(h, obj1, j) # Rd(h, obj2, j)
           THEN 0
           ELSE intcmpLoop(h, obj1, obj2, i + 1, j + 1)
    ELSE 1

intcmp(h, obj1, obj2) ==
  IF Rd(h, obj1, 0) # Rd(h, obj2, 0)
    THEN 0
    ELSE intcmpLoop(h, obj1, obj2, 0, 1)

\* ------------------------------------------------------ intcpy / objcpy
RECURSIVE cpyLoop(_, _, _, _, _)
cpyLoopSkipsLast(h, obj, cpy, i, n) ==
  IF i + 1 < n
    THEN cpyLoop(Wr(h, cpy, i, Rd(h, obj, i)), obj, cpy, i + 1, n)
    ELSE h

cpyLoop(h, obj, cpy, i, n) ==
  IF i < n
    THEN cpyLoop(Wr(h, cpy, i, Rd(h, obj, i)), obj, cpy, i + 1, n)
    ELSE h

intcpyWidth(len) == 1 + len

intcpy(h, obj, cpy) ==
  LET n == intcpyWidth(Rd(h, obj, 0))
  IN  cpyLoop(Malloc(h, cpy, "int", n), obj, cpy, 0, n)

objcpyWidthFlat(len) == 1 + len
objcpyWidth(len) == 1 + (len * 2)

objcpy(h, obj, cpy) ==
  LET n == objcpyWidth(Rd(h, obj, 0))
  IN  cpyLoop(Malloc(h, cpy, "obj", n), obj, cpy, 0, n)

\* ---------------------------------------------------- intfill / objfill
RECURSIVE intfillLoop(_, _, _, _, _)
intfillLoop(h, obj, payload, i, j) ==
  IF i < Rd(h, obj, 0)
    THEN intfillLoop(Wr(h, obj, j, payload), obj, payload, i + 1, j + 1)
    ELSE h

intfill(h, obj, payload) == intfillLoop(h, obj, payload, 0, 1)

RECURSIVE objfillLoop(_, _, _, _, _, _)
objfillLoopSkipsLast(h, obj, tag, payload, i, j) ==
  IF i + 1 < Rd(h, obj, 0)
    THEN objfillLoop(Wr(Wr(h, obj, j, tag), obj, j + 1, payload),
                     obj, tag, payload, i + 1, j + 2)
    ELSE h

objfillLoop(h, obj, tag, payload, i, j) ==
  IF i < Rd(h, obj, 0)
    THEN objfillLoop(Wr(Wr(h, obj, j, tag), obj, j + 1, payload),
                     obj, tag, payload, i + 1, j + 2)
    ELSE h

objfill(h, obj, tag, payload) == objfillLoop(h, obj, tag, payload, 0, 1)

\* ------------------------------------------------------------- objcmp
\* The recursion of objcmp has no guard against cycles.  A chain of nested
\* calls never repeats a pair (obj1, obj2) unless it repeats it for ever, so a
\* chain of more than StackLimit frames is one that never ends: the call
\* exhausts the stack instead of returning, which is the result Overflow.
StackLimit(h) == (Cardinality(DOMAIN h) * Cardinality(DOMAIN h)) + 1
Overflow == -1

\* obj1_len != obj2_len
lenDifferOneWay(h, obj1, obj2) == Rd(h, obj1, 0) > Rd(h, obj2, 0)
lenDiffer(h, obj1, obj2) == Rd(h, obj1, 0) # Rd(h, obj2, 0)

\* obj1[j] == obj2[j], j at the payload word
samePayloadNever(h, obj1, obj2, j) == FALSE
samePayloadTagSlot(h, obj1, obj2, j) == Rd(h, obj1, j) = Rd(h, obj2, j - 1)
samePayload(h, obj1, obj2, j) == Rd(h, obj1, j) = Rd(h, obj2, j)

\* tag1 != tag2 || tag1 == 0
tagsFailOnlyZero(tag1, tag2) == tag1 = 0 \/ tag2 = 0
tagsFail(tag1, tag2) == tag1 # tag2 \/ tag1 = 0

\* the arguments of the nested call: (int64_t*)obj1[j], (int64_t*)obj2[j]
nestedArgsSameObjects(h, obj1, obj2, j) == <<obj1, obj2>>
nestedArgs(h, obj1, obj2, j) == <<Rd(h, obj1, j), Rd(h, obj2, j)>>

RECURSIVE objcmpAt(_, _, _, _)
RECURSIVE objcmpLoop(_, _, _, _, _, _)
objcmpLoop(h, obj1, obj2, i, j, depth) ==
  IF i < Rd(h, obj1, 0)
    THEN LET tag1 == Rd(h, obj1, j)
             tag2 == Rd(h, obj2, j)
         IN  IF samePayload(h, obj1, obj2, j + 1)
               THEN objcmpLoop(h, obj1, obj2, i + 1, j + 2, depth)
               ELSE IF tagsFail(tag1, tag2)
                 THEN 0
                 ELSE LET n == nestedArgs(h, obj1, obj2, j + 1)
                          r == objcmpAt(h, n[1], n[2], depth + 1)
                      IN  IF r = 0
                            THEN 0
                            ELSE IF r = Overflow
                              THEN Overflow
                              ELSE objcmpLoop(h, obj1, obj2, i + 1, j + 2,
                                              depth)
    ELSE 1

\* one activation of objcmp, the depth-th frame of the stack
objcmpAt(h, obj1, obj2, depth) ==
  IF depth > StackLimit(h)
    THEN Overflow
    ELSE IF lenDiffer(h, obj1, obj2)
      THEN 0
      ELSE objcmpLoop(h, obj1, obj2, 0, 1, depth)

objcmp(h, obj1, obj2) == objcmpAt(h, obj1, obj2, 1)

\* ------------------------------------------------------ input objects
SeqsUpTo(S, n) == UNION {[1..k -> S] : k \in 0..n}

\* the block of a flat array with the given payload words
IntBlock(payloads) ==
  [kind |-> "int", w |-> <<Len(payloads)>> \o payloads]

\* the block of a tagged object with the given <<tag, payload>> pairs
TagBlock(pairs) ==
  [kind |-> "obj",
   w |-> [k \in 1..(1 + 2 * Len(pairs)) |->
            IF k = 1 THEN Len(pairs)
            ELSE IF k % 2 = 0 THEN pairs[k \div 2][1]
            ELSE pairs[(k - 1) \div 2][2]]]

\* the pairs a valid tagged object may hold: a scalar under tag 0, or the
\* address of a tagged object (one of targets) under a nonzero tag
Pairs(targets) ==
  {<<0, v>> : v \in Scalars} \cup {<<t, a>> : t \in PtrTags, a \in targets}

IntBlocks(n) == {IntBlock(p) : p \in SeqsUpTo(Scalars, n)}
TagBlocks(targets, n) == {TagBlock(p) : p \in SeqsUpTo(Pairs(targets), n)}

\* ------------------------------------------------------------ Spec
\* The library called by a single-threaded program: every call runs to its
\* end before the next one starts.
NoCall == [op |-> "none", a |-> 0, b |-> 0, t |-> 0, v |-> 0, r |-> 0]
Call(op, a, b, t, v, r) ==
  [op |-> op, a |-> a, b |-> b, t |-> t, v |-> v, r |-> r]

\* two objects built by the caller, a flat pair or a tagged pair whose
\* second object may point to the first
InitHeaps(n) ==
  {[a \in 1..n |-> IF a = 1 THEN x ELSE IF a = 2 THEN y ELSE Free] :
      x \in IntBlocks(MaxLen), y \in IntBlocks(MaxLen)}
  \cup
  {[a \in 1..n |-> IF a = 1 THEN x ELSE IF a = 2 THEN y ELSE Free] :
      x \in TagBlocks({}, MaxLen), y \in TagBlocks({1}, MaxLen)}

Idle ==
  /\ last = NoCall
  /\ stack = <<>>
  /\ ret = <<>>
  /\ calls = 0

Init ==
  /\ heap \in InitHeaps(MaxObjs)
  /\ Idle

\* the process is alive: no call has exhausted the stack
Alive == last.r # Overflow

IntCmp(a, b) ==
  /\ Alive
  /\ a \in IntObjs(heap) /\ b \in IntObjs(heap)
  /\ last' = Call("intcmp", a, b, 0, 0, intcmp(heap, a, b))
  /\ UNCHANGED <<heap, stack, ret, calls>>

IntCpy(a, cpy) ==
  /\ Alive
  /\ a \in IntObjs(heap)
  /\ heap[cpy] = Free
  /\ heap' = intcpy(heap, a, cpy)
  /\ last' = Call("intcpy", a, 0, 0, 0, cpy)
  /\ UNCHANGED <<stack, ret, calls>>

IntFill(a, v) ==
  /\ Alive
  /\ a \in IntObjs(heap)
  /\ heap' = intfill(heap, a, v)
  /\ last' = Call("intfill", a, 0, 0, v, 0)
  /\ UNCHANGED <<stack, ret, calls>>

ObjCmp(a, b) ==
  /\ Alive
  /\ a \in TagObjs(heap) /\ b \in TagObjs(heap)
  /\ last' = Call("objcmp", a, b, 0, 0, objcmp(heap, a, b))
  /\ UNCHANGED <<heap, stack, ret, calls>>

ObjCpy(a, cpy) ==
  /\ Alive
  /\ a \in TagObjs(heap)
  /\ heap[cpy] = Free
  /\ heap' = objcpy(heap, a, cpy)
  /\ last' = Call("objcpy", a, 0, 0, 0, cpy)
  /\ UNCHANGED <<stack, ret, calls>>

ObjFill(a, t, v) ==
  /\ Alive
  /\ a \in TagObjs(heap)
  /\ <<t, v>> \in Pairs(TagObjs(heap))
  /\ heap' = objfill(heap, a, t, v)
  /\ last' = Call("objfill", a, 0, t, v, 0)
  /\ UNCHANGED <<stack, ret, calls>>

Next ==
  \/ \E a \in Addrs, b \in Addrs : IntCmp(a, b)
  \/ \E a \in Addrs, cpy \in Addrs : IntCpy(a, cpy)
  \/ \E a \in Addrs, v \in Scalars : IntFill(a, v)
  \/ \E a \in Addrs, b \in Addrs : ObjCmp(a, b)
  \/ \E a \in Addrs, cpy \in Addrs : ObjCpy(a, cpy)
  \/ \E a \in Addrs, t \in Tags, v \in Scalars \cup Addrs : ObjFill(a, t, v)

Spec == Init /\ [][Next]_vars

\* --------------------------------------------------------- SpecCmp
\* The two compare functions applied to input heaps that nothing modifies:
\*  - three flat arrays;
\*  - CmpObjs tagged objects of at most CmpLen pairs, each pointing to
\*    objects at lower addresses only;
\*  - two tagged objects of at most MaxLen pairs over two leaves of at most
\*    CmpLen scalars.
\* Every such heap is acyclic.
RECURSIVE Stratified(_)
Stratified(k) ==
  IF k = 0
    THEN {<<>>}
    ELSE {Append(h, o) : h \in Stratified(k - 1),
                         o \in TagBlocks(1..(k - 1), CmpLen)}

FlatHeaps(n) ==
  {[a \in 1..n |-> IF a = 1 THEN x ELSE IF a = 2 THEN y
                          ELSE IF a = 3 THEN z ELSE Free] :
      x \in IntBlocks(MaxLen), y \in IntBlocks(MaxLen), z \in IntBlocks(MaxLen)}

TwoRoots(n) ==
  {[a \in 1..n |-> IF a = 1 THEN x ELSE IF a = 2 THEN y
                          ELSE IF a = 3 THEN p ELSE IF a = 4 THEN q
                          ELSE Free] :
      x \in TagBlocks({}, CmpLen), y \in TagBlocks({}, CmpLen),
      p \in TagBlocks({1, 2}, MaxLen), q \in TagBlocks({1, 2}, MaxLen)}

CmpHeaps(n) == FlatHeaps(n) \cup Stratified(n) \cup TwoRoots(n)

InitCmp ==
  /\ heap \in CmpHeaps(CmpObjs)
  /\ Idle

NextCmp ==
  \/ \E a \in 1..CmpObjs, b \in 1..CmpObjs : IntCmp(a, b)
  \/ \E a \in 1..CmpObjs, b \in 1..CmpObjs : ObjCmp(a, b)

SpecCmp == InitCmp /\ [][NextCmp]_vars

\* --------------------------------------------------------- SpecRun
\* objcmp run one step at a time on a heap nothing modifies, with its
\* activation records on a stack: RunObjs tagged objects of at most RunLen
\* pairs each, pointing anywhere (to themselves and to each other too).
\* A frame holds the locals of one activation; pc is "entry" before the
\* length check, "loop" at the head of the for loop, "call" while the
\* nested objcmp of line 83 runs (j then stands at the payload word).
Frame(obj1, obj2) ==
  [obj1 |-> obj1, obj2 |-> obj2, i |-> 0, j |-> 1, pc |-> "entry"]

RunHeaps(n) == [1..n -> TagBlocks(1..n, RunLen)]

InitRun ==
  /\ heap \in RunHeaps(RunObjs)
  /\ Idle

Top == stack[Len(stack)]

SetTop(f) == [stack EXCEPT ![Len(stack)] = f]

\* return r; from the innermost activation
Return(r) ==
  /\ stack' = SubSeq(stack, 1, Len(stack) - 1)
  /\ IF Len(stack) = 1
       THEN /\ last' = Call("objcmp", stack[1].obj1, stack[1].obj2, 0, 0, r)
            /\ ret' = <<>>
       ELSE /\ last' = last
            /\ ret' = <<r>>
  /\ UNCHANGED <<heap, calls>>

\* the program calls objcmp(a, b)
RunCall(a, b) ==
  /\ last = NoCall /\ stack = <<>>
  /\ stack' = <<Frame(a, b)>>
  /\ calls' = 1
  /\ UNCHANGED <<heap, last, ret>>

\* if(obj1_len != obj2_len) return 0;
RunLenDiffer ==
  /\ Alive /\ stack # <<>> /\ Top.pc = "entry"
  /\ lenDiffer(heap, Top.obj1, Top.obj2)
  /\ Return(0)

\* else: int j = 1; i = 0
RunEnter ==
  /\ Alive /\ stack # <<>> /\ Top.pc = "entry"
  /\ ~lenDiffer(heap, Top.obj1, Top.obj2)
  /\ stack' = SetTop([Top EXCEPT !.pc = "loop"])
  /\ UNCHANGED <<heap, last, ret, calls>>

\* i<obj1_len fails: return 1;
RunDone ==
  /\ Alive /\ stack # <<>> /\ Top.pc = "loop"
  /\ ~(Top.i < Rd(heap, Top.obj1, 0))
  /\ Return(1)

AtPair == Alive /\ stack # <<>> /\ Top.pc = "loop" /\ Top.i < Rd(heap, Top.obj1, 0)

\* if(obj1[j] == obj2[j]) { } j = j + 1; i = i + 1
RunPairEqual ==
  /\ AtPair
  /\ samePayload(heap, Top.obj1, Top.obj2, Top.j + 1)
  /\ stack' = SetTop([Top EXCEPT !.i = @ + 1, !.j = @ + 2])
  /\ UNCHANGED <<heap, last, ret, calls>>

\* else if(tag1 != tag2 || tag1 == 0) return 0;
RunPairFail ==
  /\ AtPair
  /\ ~samePayload(heap, Top.obj1, Top.obj2, Top.j + 1)
  /\ tagsFail(Rd(heap, Top.obj1, Top.j), Rd(heap, Top.obj2, Top.j))
  /\ Return(0)

Recursing ==
  /\ AtPair
  /\ ~samePayload(heap, Top.obj1, Top.obj2, Top.j + 1)
  /\ ~tagsFail(Rd(heap, Top.obj1, Top.j), Rd(heap, Top.obj2, Top.j))

\* else if(objcmp((int64_t*)obj1[j],(int64_t*)obj2[j]) == 0): the call
RunRecurse ==
  /\ Recursing
  /\ Len(stack) < StackLimit(heap)
  /\ LET n == nestedArgs(heap, Top.obj1, Top.obj2, Top.j + 1)
     IN  stack' = Append(SetTop([Top EXCEPT !.j = @ + 1, !.pc = "call"]),
                         Frame(n[1], n[2]))
  /\ calls' = calls + 1
  /\ UNCHANGED <<heap, last, ret>>

\* the same call with the stack exhausted: the process dies in it
RunOverflow ==
  /\ Recursing
  /\ Len(stack) >= StackLimit(heap)
  /\ last' = Call("objcmp", stack[1].obj1, stack[1].obj2, 0, 0, Overflow)
  /\ UNCHANGED <<heap, stack, ret, calls>>

\* the nested call returned 0: return 0;
RunResumeFail ==
  /\ Alive /\ stack # <<>> /\ Top.pc = "call" /\ ret = <<0>>
  /\ Return(0)

\* the nested call returned 1: j = j + 1; i = i + 1
RunResumeOk ==
  /\ Alive /\ stack # <<>> /\ Top.pc = "call" /\ ret = <<1>>
  /\ stack' = SetTop([Top EXCEPT !.i = @ + 1, !.j = @ + 1, !.pc = "loop"])
  /\ ret' = <<>>
  /\ UNCHANGED <<heap, last, calls>>

RunStep ==
  \/ RunLenDiffer
  \/ RunEnter
  \/ RunDone
  \/ RunPairEqual
  \/ RunPairFail
  \/ RunRecurse
  \/ RunOverflow
  \/ RunResumeFail
  \/ RunResumeOk

NextRun ==
  \/ \E a \in 1..RunObjs, b \in 1..RunObjs : RunCall(a, b)
  \/ RunStep

\* a call, once made, runs on: nothing else is scheduled in the process
SpecRun == InitRun /\ [][NextRun]_vars /\ WF_vars(RunStep)

\* ------------------------------------------------ reading the layouts
Count(h, a) == Rd(h, a, 0)

\* payload word i of a flat array, tag and payload of pair i of a tagged
\* object, i from 0
IntAt(h, a, i) == Rd(h, a, 1 + i)
TagAt(h, a, i) == Rd(h, a, 1 + (2 * i))
PayAt(h, a, i) == Rd(h, a, 2 + (2 * i))
Slots(h, a) == 0..(Count(h, a) - 1)

ValidInt(h, a) ==
  /\ h[a].kind = "int"
  /\ Count(h, a) \in Nat
  /\ Len(h[a].w) = 1 + Count(h, a)

ValidObj(h, a) ==
  /\ h[a].kind = "obj"
  /\ Count(h, a) \in Nat
  /\ Len(h[a].w) = 1 + (2 * Count(h, a))
  /\ \A i \in Slots(h, a) :
       TagAt(h, a, i) # 0 => PayAt(h, a, i) \in TagObjs(h)

ValidHeap(h) ==
  \A a \in DOMAIN h :
    h[a] = Free \/ ValidInt(h, a) \/ ValidObj(h, a)

\* the objects a tagged object points to under a nonzero tag
Succ(h, a) == {PayAt(h, a, i) : i \in {k \in Slots(h, a) : TagAt(h, a, k) # 0}}

RECURSIVE Closure(_, _)
Closure(h, S) ==
  LET T == S \cup UNION {Succ(h, x) : x \in S}
  IN  IF T = S THEN S ELSE Closure(h, T)

\* the reachable object graph of the objects of S has no cycle
Acyclic(h, S) == \A x \in Closure(h, S) : x \notin Closure(h, Succ(h, x))

\* the longest chain of pointers from a, in an acyclic graph
RECURSIVE Depth(_, _)
Depth(h, a) ==
  IF Succ(h, a) = {}
    THEN 0
    ELSE LET ds == {Depth(h, x) : x \in Succ(h, a)}
         IN  1 + (CHOOSE d \in ds : \A e \in ds : e <= d)

\* the three-step rule of a pair and the equality it defines
RECURSIVE StructEq(_, _, _)
PairPasses(h, a, b, i) ==
  IF PayAt(h, a, i) = PayAt(h, b, i)
    THEN TRUE
    ELSE IF TagAt(h, a, i) # TagAt(h, b, i) \/ TagAt(h, a, i) = 0
      THEN FALSE
      ELSE StructEq(h, PayAt(h, a, i), PayAt(h, b, i))

StructEq(h, a, b) ==
  /\ Count(h, a) = Count(h, b)
  /\ \A i \in Slots(h, a) : PairPasses(h, a, b, i)

\* no pair that a comparison of a with b looks at has bitwise-equal payloads
\* under different tags
RECURSIVE TagsAgree(_, _, _)
TagsAgree(h, a, b) ==
  Count(h, a) = Count(h, b) =>
    \A i \in Slots(h, a) :
      IF PayAt(h, a, i) = PayAt(h, b, i)
        THEN TagAt(h, a, i) = TagAt(h, b, i)
        ELSE (TagAt(h, a, i) = TagAt(h, b, i) /\ TagAt(h, a, i) # 0)
               => TagsAgree(h, PayAt(h, a, i), PayAt(h, b, i))

\* every object of every reachable heap is valid
HeapsValid == ValidHeap(heap)

\* -------------------------------------------------------- properties
\* C1: on tagged objects with an acyclic reachable graph objcmp returns 1
\* exactly when the counts are equal and every pair passes the three-step
\* rule (equal payloads pass whatever the tags; else different tags or tag 0
\* fail; else the pair passes iff objcmp of the two pointed-to objects is
\* 1), and it returns 0 in every other case.
C1_ObjcmpRule ==
  (last.op = "objcmp" /\ Acyclic(heap, {last.a, last.b})) =>
    /\ last.r \in {0, 1}
    /\ last.r = 1 <=> StructEq(heap, last.a, last.b)

\* objcmp returned 1 on two objects of two pairs: one pair passed by the
\* nested comparison of two different objects, one by equal payloads
\* under different tags
C1_Witness ==
  /\ last.op = "objcmp" /\ last.r = 1
  /\ Acyclic(heap, {last.a, last.b})
  /\ \E i \in Slots(heap, last.a) :
       PayAt(heap, last.a, i) # PayAt(heap, last.b, i)
  /\ \E i \in Slots(heap, last.a) :
       /\ PayAt(heap, last.a, i) = PayAt(heap, last.b, i)
       /\ TagAt(heap, last.a, i) # TagAt(heap, last.b, i)

\* C2: intcmp(a, b) = intcmp(b, a) on flat arrays and, on tagged objects
\* with an acyclic reachable graph, objcmp(a, b) = objcmp(b, a), whatever
\* the tags and the counts of the two.
C2_Symmetry ==
  /\ last.op = "intcmp" => last.r = intcmp(heap, last.b, last.a)
  /\ (last.op = "objcmp" /\ Acyclic(heap, {last.a, last.b})) =>
       last.r = objcmp(heap, last.b, last.a)

\* objcmp returned on two objects of equal nonzero count whose first tags
\* differ
C2_Witness ==
  /\ last.op = "objcmp" /\ last.a # last.b
  /\ Acyclic(heap, {last.a, last.b})
  /\ Count(heap, last.a) = Count(heap, last.b)
  /\ Count(heap, last.a) > 0
  /\ TagAt(heap, last.a, 0) # TagAt(heap, last.b, 0)
  /\ last.r = 1

\* C3: intcmp(x, x) = 1 for every flat array x and objcmp(x, x) = 1 for
\* every tagged object x, whatever its tags and whatever its payloads point
\* to (itself included).
C3_Reflexivity ==
  /\ (last.op = "intcmp" /\ last.a = last.b) => last.r = 1
  /\ (last.op = "objcmp" /\ last.a = last.b) => last.r = 1

\* objcmp(x, x) returned for an x that points to itself
C3_Witness ==
  /\ last.op = "objcmp" /\ last.a = last.b
  /\ last.a \in Succ(heap, last.a)
  /\ last.r = 1

\* C4: intcmp returns 1 if and only if the two count words are equal and
\* every payload word of the one equals that word of the other, and 0
\* otherwise (so 0 whenever the counts differ).
C4_IntcmpElementwise ==
  last.op = "intcmp" =>
    /\ last.r \in {0, 1}
    /\ last.r = 1 <=>
         /\ Count(heap, last.a) = Count(heap, last.b)
         /\ \A i \in Slots(heap, last.a) :
              IntAt(heap, last.a, i) = IntAt(heap, last.b, i)

\* intcmp returned 0 on two arrays of equal count that differ in the last
\* payload word only
C4_Witness ==
  /\ last.op = "intcmp" /\ last.r = 0
  /\ Count(heap, last.a) = Count(heap, last.b)
  /\ Count(heap, last.a) >= 2
  /\ \A i \in Slots(heap, last.a) :
       (IntAt(heap, last.a, i) = IntAt(heap, last.b, i))
         <=> (i + 1 < Count(heap, last.a))

\* C5: intcpy(x) and objcpy(x) return an address that is not x and held no
\* object before; the clone compares equal to x (intcmp, objcmp return 1),
\* its count word is that of x, and x is left as it was.
C5_CloneFidelity ==
  [][/\ last'.op = "intcpy" =>
          /\ last'.r # last'.a
          /\ heap[last'.r] = Free
          /\ ValidInt(heap', last'.r)
          /\ intcmp(heap', last'.a, last'.r) = 1
          /\ Count(heap', last'.r) = Count(heap, last'.a)
          /\ heap'[last'.a] = heap[last'.a]
     /\ last'.op = "objcpy" =>
          /\ last'.r # last'.a
          /\ heap[last'.r] = Free
          /\ ValidObj(heap', last'.r)
          /\ objcmp(heap', last'.a, last'.r) = 1
          /\ Count(heap', last'.r) = Count(heap, last'.a)
          /\ heap'[last'.a] = heap[last'.a]]_vars

\* objcpy just returned the clone of an object of two different pairs
C5_Witness ==
  /\ last.op = "objcpy"
  /\ last.r # last.a
  /\ Count(heap, last.a) = 2
  /\ PayAt(heap, last.a, 0) # PayAt(heap, last.a, 1)
  /\ heap[last.r] = heap[last.a]

\* C6: objcpy(x) allocates one new object and nothing else, and every pair
\* of the clone holds the tag and the payload word of that pair of x (the
\* address of a nested object y, not a copy of y); an objfill changes no
\* word of any object but the one it fills, so a fill of y shows through
\* x and through the clone, which both still hold y's address, and a fill
\* of the clone leaves x as it was.
C6_CloneShallow ==
  [][/\ last'.op = "objcpy" =>
          /\ Allocated(heap') = Allocated(heap) \cup {last'.r}
          /\ last'.r \notin Allocated(heap)
          /\ heap'[last'.r].w = heap[last'.a].w
          /\ \A o \in Allocated(heap) : heap'[o] = heap[o]
     /\ last'.op = "objfill" =>
          /\ \A o \in DOMAIN heap : o # last'.a => heap'[o] = heap[o]
          /\ \A o \in TagObjs(heap) \ {last'.a} : \A i \in Slots(heap, o) :
               (TagAt(heap, o, i) # 0 /\ PayAt(heap, o, i) = last'.a) =>
                 /\ PayAt(heap', o, i) = last'.a
                 /\ Count(heap', PayAt(heap', o, i)) > 0 =>
                      /\ TagAt(heap', PayAt(heap', o, i), 0) = last'.t
                      /\ PayAt(heap', PayAt(heap', o, i), 0) = last'.v]_vars

\* objfill just filled a nested object y that an object and its clone both
\* point to
C6_Witness ==
  /\ last.op = "objfill"
  /\ Count(heap, last.a) > 0
  /\ \E x \in TagObjs(heap), c \in TagObjs(heap) :
       /\ x # c /\ x # last.a /\ c # last.a
       /\ heap[x] = heap[c]
       /\ \E i \in Slots(heap, x) :
            TagAt(heap, x, i) # 0 /\ PayAt(heap, x, i) = last.a

\* C7: intfill(a, v) leaves v in every payload slot of a and objfill(a, t, v)
\* leaves (t, v) in every pair of a; neither changes the count word of a or
\* any word of another object; and no call of the library changes the count
\* word of any object.
C7_FillUniform ==
  [][/\ last'.op = "intfill" =>
          /\ \A i \in Slots(heap, last'.a) : IntAt(heap', last'.a, i) = last'.v
          /\ Len(heap'[last'.a].w) = Len(heap[last'.a].w)
          /\ \A o \in DOMAIN heap : o # last'.a => heap'[o] = heap[o]
     /\ last'.op = "objfill" =>
          /\ \A i \in Slots(heap, last'.a) :
               /\ TagAt(heap', last'.a, i) = last'.t
               /\ PayAt(heap', last'.a, i) = last'.v
          /\ Len(heap'[last'.a].w) = Len(heap[last'.a].w)
          /\ \A o \in DOMAIN heap : o # last'.a => heap'[o] = heap[o]
     /\ \A o \in Allocated(heap) : Count(heap', o) = Count(heap, o)]_vars

\* objfill just filled an object of two pairs with a pointer, and another
\* object exists
C7_Witness ==
  /\ last.op = "objfill"
  /\ Count(heap, last.a) = 2
  /\ last.t # 0
  /\ TagAt(heap, last.a, 1) = last.t /\ PayAt(heap, last.a, 1) = last.v
  /\ \E o \in TagObjs(heap) : o # last.a /\ Count(heap, o) > 0

\* -------------------------------------------- properties of SpecRun
Running == stack # <<>> /\ Alive
RunArgs == {stack[1].obj1, stack[1].obj2}
HasReturned == stack = <<>> /\ last.op = "objcmp" /\ last.r \in {0, 1}

\* two activations on the stack compare the same two objects
Revisit ==
  \E m \in 1..Len(stack), n \in 1..Len(stack) :
    /\ m < n
    /\ stack[m].obj1 = stack[n].obj1
    /\ stack[m].obj2 = stack[n].obj2

\* C8: on tagged objects with an acyclic reachable graph objcmp returns 0 or
\* 1 in the end; the activations nested inside the first are never more
\* than the depth of the graph of either argument; a nested call is made
\* only for a pair under a nonzero tag.
C8_TerminatesOnTrees ==
  /\ []((stack # <<>> /\ Acyclic(heap, RunArgs)) =>
          /\ Alive
          /\ Len(stack) - 1 <= Depth(heap, stack[1].obj1)
          /\ Len(stack) - 1 <= Depth(heap, stack[1].obj2))
  /\ [][(stack # <<>> /\ Len(stack') > Len(stack)) =>
          /\ Rd(heap, Top.obj1, Top.j) # 0
          /\ Rd(heap, Top.obj2, Top.j) # 0]_vars
  /\ ((stack # <<>> /\ Acyclic(heap, RunArgs)) ~> HasReturned)

\* objcmp returned 1 from a call on two different objects of an acyclic
\* graph that made a nested call
C8_Witness ==
  /\ HasReturned /\ last.r = 1
  /\ last.a # last.b
  /\ Acyclic(heap, {last.a, last.b})
  /\ calls >= 2

\* C9 as stated: objcmp never returns from a call on objects whose
\* reachable graph has a cycle through nonzero-tag payloads.
C9_NeverReturnsOnCycles ==
  HasReturned => Acyclic(heap, {last.a, last.b})

\* C9 as amended: objcmp never returns, nesting calls until the stack is
\* exhausted, exactly in the calls that come to compare two objects an
\* enclosing activation is already comparing; that takes a cycle in the
\* reachable graph, and every other call returns 0 or 1.
C9_UnboundedOnRevisit ==
  /\ [][Revisit => (Revisit' /\ stack' # <<>>)]_vars
  /\ [](Revisit => ~Acyclic(heap, RunArgs))
  /\ [](~Alive => Revisit)
  /\ (Revisit ~> ~Alive)
  /\ (Running ~> (HasReturned \/ Revisit))
  /\ []((HasReturned \/ ~Alive) => last.r = objcmp(heap, last.a, last.b))

\* the stack is exhausted in a call on two different objects
C9_Witness ==
  /\ ~Alive
  /\ last.op = "objcmp" /\ last.a # last.b
  /\ Revisit
  /\ Len(stack) = StackLimit(heap)

\* -------------------------------------------- properties of SpecCmp
\* C10 as stated: intcmp is transitive on flat arrays, and objcmp is
\* transitive on tagged objects with an acyclic reachable graph.
C10_Transitive ==
  /\ (last.op = "intcmp" /\ last.r = 1) =>
       \A c \in IntObjs(heap) :
         intcmp(heap, last.b, c) = 1 => intcmp(heap, last.a, c) = 1
  /\ (last.op = "objcmp" /\ last.r = 1) =>
       \A c \in TagObjs(heap) :
         objcmp(heap, last.b, c) = 1 => objcmp(heap, last.a, c) = 1

\* C10 as amended: intcmp is transitive on flat arrays; objcmp(a, b) = 1 and
\* objcmp(b, c) = 1 imply objcmp(a, c) = 1 on tagged objects with an acyclic
\* reachable graph provided no pair that the two comparisons look at has
\* bitwise-equal payloads under different tags.
C10_TransitiveTagsAgree ==
  /\ (last.op = "intcmp" /\ last.r = 1) =>
       \A c \in IntObjs(heap) :
         intcmp(heap, last.b, c) = 1 => intcmp(heap, last.a, c) = 1
  /\ (last.op = "objcmp" /\ last.r = 1) =>
       \A c \in TagObjs(heap) :
         (/\ objcmp(heap, last.b, c) = 1
          /\ TagsAgree(heap, last.a, last.b)
          /\ TagsAgree(heap, last.b, c)) =>
           objcmp(heap, last.a, c) = 1

\* objcmp(a, b) returned 1 by a nested comparison, and some third object c
\* has objcmp(b, c) = 1 by a nested comparison too, the tags agreeing
C10_Witness ==
  /\ last.op = "objcmp" /\ last.r = 1
  /\ Count(heap, last.a) > 0
  /\ PayAt(heap, last.a, 0) # PayAt(heap, last.b, 0)
  /\ \E c \in TagObjs(heap) :
       /\ c # last.a /\ c # last.b
       /\ objcmp(heap, last.b, c) = 1
       /\ PayAt(heap, last.b, 0) # PayAt(heap, c, 0)
       /\ TagsAgree(heap, last.a, last.b)
       /\ TagsAgree(heap, last.b, c)

====
